---------------------------- MODULE Spec2Model ----------------------------
(***************************************************************************)
(* State-machine model of santas-little-digger (src/main.rs, src/map.rs,   *)
(* src/player.rs): the load gates, map generation, the per-frame schedule  *)
(* (StateTransition, FixedUpdate, Update, PostUpdate), deferred commands,  *)
(* digging, movement, visibility and auto-tiling, plus the two pure        *)
(* functions get_group_load_state and map_bitmask_to_offset.               *)
(*                                                                         *)
(* Time is counted in quanta: HalfUnit quanta are the literal 0.5 of       *)
(* player.rs, FixedTimestep quanta are one FixedUpdate step.               *)
(* player.rs matches the tile's component on Walkable / Diggable /         *)
(* Impassable, which are the variants of map.rs's TileTerrain: the model   *)
(* reads the match as a match on the tile's terrain.                       *)
(***************************************************************************)
EXTENDS Integers, Sequences, FiniteSets, TLC

\* ------------------------------------------------------------- bounds
\* Map side (MapSettings.size is (31, 31) in the program).
MapSize == 6
\* Largest hardness a Diggable definition of the registry may carry.
MaxHardness == 1
\* Largest frame delta, in quanta (a frame delta is at least one quantum).
MaxDelta == 2
\* Moves (walks and digs) the model lets the player start.
MaxMoves == 3
\* Longest handle sequence get_group_load_state is applied to.
MaxHandles == 3

\* -------------------------------------------------- program constants
\* 0.5 time units (player.rs: `Walkable => 0.5`, `0.5 * (1.0 + hardness)`).
HalfUnit == 4
\* One FixedUpdate step (the schedule animate_moveto is added to).
FixedTimestep == 2
\* MapSettings.tile_size
TileSize == 16
\* Largest value of the u8 bitmask parameter.
U8Max == 255

VARIABLES
  phase,            \* schedule the frame is in
  panicked,         \* a system panicked: the process is gone
  first_frame,      \* the first frame's delta is zero
  delta,            \* Time::delta of the current frame, in quanta
  fixed_acc,        \* Time<Fixed>'s accumulated overstep
  asset_state,      \* asset server: load state per handle, "None" if unknown
  registry,         \* content of tiles.info.ron (the TileInfo asset)
  tile_info,        \* the TileInfo resource: <<>> or <<registry>>
  map_state, next_map_state,
  main_state, next_main_state,
  st_done,          \* apply_state_transition systems run this frame
  tilemap,          \* <<>> or <<tilemap entity id>>
  tile_storage,     \* TileStorage: TilePos -> entity id
  tiles,            \* live tile entities: id -> components
  next_entity,      \* next fresh entity id
  player,           \* <<>> or <<[grid_pos, transform, move_to]>>
  ran,              \* systems that ran in the current schedule pass
  cmds,             \* deferred commands of the current schedule pass
  changed,          \* tiles whose TileTerrain/TileTexture was added since PostUpdate last ran
  moves_started,    \* MoveTo components created so far (bounded by MaxMoves)
  create_map_runs,  \* times create_map ran
  pressed,          \* the key move_player read from Input<KeyCode> this tick ("None": no key, or not read)
  handles,          \* input of get_group_load_state (pure-function specification)
  load_result,      \* result of map.rs's copy, "unset" before it is applied
  main_load_result, \* result of main.rs's copy, "unset" before it is applied
  bitmask,          \* input of map_bitmask_to_offset (pure-function specification)
  offset,           \* its result, -1 before it is applied
  tile_pos,         \* input of update_tile (pure-function specification)
  new_index         \* the TileTextureIndex it leaves, -1 before it is applied

vars == <<phase, panicked, first_frame, delta, fixed_acc, asset_state, registry,
          tile_info, map_state, next_map_state, main_state, next_main_state,
          st_done, tilemap, tile_storage, tiles, next_entity, player, ran, cmds,
          changed, moves_started, create_map_runs, pressed, handles, load_result,
          main_load_result, bitmask, offset, tile_pos, new_index>>

gameVars == <<phase, panicked, first_frame, delta, fixed_acc, asset_state, registry,
          tile_info, map_state, next_map_state, main_state, next_main_state,
          st_done, tilemap, tile_storage, tiles, next_entity, player, ran, cmds,
          changed, moves_started, create_map_runs, pressed>>

pureVars == <<handles, load_result, main_load_result, bitmask, offset, tile_pos,
              new_index>>

\* ------------------------------------------------------------ helpers
None == <<>>
Some(x) == <<x>>
Min(a, b) == IF a < b THEN a ELSE b

\* ------------------------------------------------- load-state aggregation
LoadStates == {"Loaded", "Loading", "Failed", "NotLoaded", "None"}

RECURSIVE group_load_loop(_, _, _)
group_load_loop(hs, i, load_state) ==
  IF i > Len(hs) THEN load_state
  ELSE CASE hs[i] = "Loaded"    -> group_load_loop(hs, i + 1, load_state)
         [] hs[i] = "Loading"   -> group_load_loop(hs, i + 1, "Loading")
         [] hs[i] = "Failed"    -> "Failed"
         [] hs[i] = "NotLoaded" -> "NotLoaded"
         [] OTHER               -> "NotLoaded"

\* Mutant: a Loaded handle resets the running state (the last handle wins).
RECURSIVE group_load_loop_lastwins(_, _, _)
group_load_loop_lastwins(hs, i, load_state) ==
  IF i > Len(hs) THEN load_state
  ELSE CASE hs[i] = "Loaded"    -> group_load_loop_lastwins(hs, i + 1, "Loaded")
         [] hs[i] = "Loading"   -> group_load_loop_lastwins(hs, i + 1, "Loading")
         [] hs[i] = "Failed"    -> "Failed"
         [] hs[i] = "NotLoaded" -> "NotLoaded"
         [] OTHER               -> "NotLoaded"

get_group_load_state_lastwins(hs) == group_load_loop_lastwins(hs, 1, "Loaded")

\* Mutant: Failed is recorded without returning, so a later handle overrides it.
RECURSIVE group_load_loop_noreturn(_, _, _)
group_load_loop_noreturn(hs, i, load_state) ==
  IF i > Len(hs) THEN load_state
  ELSE CASE hs[i] = "Loaded"    -> group_load_loop_noreturn(hs, i + 1, load_state)
         [] hs[i] = "Loading"   -> group_load_loop_noreturn(hs, i + 1, "Loading")
         [] hs[i] = "Failed"    -> group_load_loop_noreturn(hs, i + 1, "Failed")
         [] hs[i] = "NotLoaded" -> "NotLoaded"
         [] OTHER               -> "NotLoaded"

get_group_load_state_noreturn(hs) == group_load_loop_noreturn(hs, 1, "Loaded")

\* Mutant: a handle the asset server does not know is skipped.
RECURSIVE group_load_loop_skipnone(_, _, _)
group_load_loop_skipnone(hs, i, load_state) ==
  IF i > Len(hs) THEN load_state
  ELSE CASE hs[i] = "Loaded"    -> group_load_loop_skipnone(hs, i + 1, load_state)
         [] hs[i] = "Loading"   -> group_load_loop_skipnone(hs, i + 1, "Loading")
         [] hs[i] = "Failed"    -> "Failed"
         [] hs[i] = "NotLoaded" -> "NotLoaded"
         [] OTHER               -> group_load_loop_skipnone(hs, i + 1, load_state)

get_group_load_state_skipnone(hs) == group_load_loop_skipnone(hs, 1, "Loaded")

\* map.rs get_group_load_state
get_group_load_state(hs) == group_load_loop(hs, 1, "Loaded")

\* main.rs get_group_load_state (a verbatim copy of the map.rs function)
main_get_group_load_state(hs) == group_load_loop(hs, 1, "Loaded")

\* ------------------------------------------------------- auto-tiling
\* Mutant: the offsets of masks 10 (WE) and 5 (NS) are exchanged.
map_bitmask_to_offset_swapped(m) ==
  CASE m = 0  -> 0
    [] m = 15 -> 1
    [] m = 1  -> 2
    [] m = 2  -> 3
    [] m = 4  -> 4
    [] m = 8  -> 5
    [] m = 3  -> 6
    [] m = 6  -> 7
    [] m = 12 -> 8
    [] m = 9  -> 9
    [] m = 10 -> 11
    [] m = 5  -> 10
    [] m = 11 -> 12
    [] m = 7  -> 13
    [] m = 14 -> 14
    [] m = 13 -> 15
    [] OTHER  -> 0

\* map.rs map_bitmask_to_offset
map_bitmask_to_offset(m) ==
  CASE m = 0  -> 0
    [] m = 15 -> 1
    [] m = 1  -> 2
    [] m = 2  -> 3
    [] m = 4  -> 4
    [] m = 8  -> 5
    [] m = 3  -> 6
    [] m = 6  -> 7
    [] m = 12 -> 8
    [] m = 9  -> 9
    [] m = 10 -> 10
    [] m = 5  -> 11
    [] m = 11 -> 12
    [] m = 7  -> 13
    [] m = 14 -> 14
    [] m = 13 -> 15
    [] OTHER  -> 0

get_direction_bit(d) ==
  CASE d = "North" -> 1
    [] d = "East"  -> 2
    [] d = "South" -> 4
    [] d = "West"  -> 8


\* ------------------------------------------------ grid addressing
Positions == (0 .. MapSize - 1) \X (0 .. MapSize - 1)

InBounds(x, y) == x \in 0 .. MapSize - 1 /\ y \in 0 .. MapSize - 1

\* TilePos::from_i32_pair: None outside the map
from_i32_pair(x, y) == IF InBounds(x, y) THEN Some(<<x, y>>) ELSE None

DirOffset(d) ==
  CASE d = "North"     -> <<0, 1>>
    [] d = "East"      -> <<1, 0>>
    [] d = "South"     -> <<0, -1>>
    [] d = "West"      -> <<-1, 0>>
    [] d = "NorthEast" -> <<1, 1>>
    [] d = "NorthWest" -> <<-1, 1>>
    [] d = "SouthEast" -> <<1, -1>>
    [] d = "SouthWest" -> <<-1, -1>>

OrthogonalDirs == {"North", "East", "South", "West"}
AllDirs == OrthogonalDirs \cup {"NorthEast", "NorthWest", "SouthEast", "SouthWest"}

\* Neighbors::get_square_neighboring_positions: the directions whose
\* neighbor lies inside the map
NeighborDirs(pos, diagonals) ==
  { d \in (IF diagonals THEN AllDirs ELSE OrthogonalDirs) :
      InBounds(pos[1] + DirOffset(d)[1], pos[2] + DirOffset(d)[2]) }

NeighborPos(pos, d) == <<pos[1] + DirOffset(d)[1], pos[2] + DirOffset(d)[2]>>

\* TilePos::center_in_world for a square grid of cell size TileSize
center_in_world(pos) == <<pos[1] * TileSize, pos[2] * TileSize>>

\* ------------------------------------------------------ tile registry
Walkable == [kind |-> "Walkable", hardness |-> 0]
Diggable(h) == [kind |-> "Diggable", hardness |-> h]
Impassable == [kind |-> "Impassable", hardness |-> 0]

TextureKinds == {"Single", "Directional"}

OtherKind(k) == IF k = "Single" THEN "Directional" ELSE "Single"

\* The tile definitions the program may be given: "ground" is the walkable
\* definition, "ice" is diggable with some hardness or impassable; one of the
\* two has the Directional texture rule and the other the Single one.
Registries ==
  { [ice    |-> [tile_type |-> t, tile_texture |-> [kind |-> ki, ind |-> 0]],
     ground |-> [tile_type |-> Walkable,
                 tile_texture |-> [kind |-> OtherKind(ki), ind |-> 16]]] :
      t \in {Diggable(h) : h \in 0 .. MaxHardness} \cup {Impassable},
      ki \in TextureKinds }

\* TileInfo::create_bundle (the definition `name` is looked up by the caller's
\* record access; a missing name is not modelled: both names are in the registry)
create_bundle(info, name, position, tilemap_id, visible) ==
  [ tile_type     |-> name,
    position      |-> position,
    texture_index |-> info[name].tile_texture.ind,
    tilemap_id    |-> tilemap_id,
    visible       |-> visible,
    tile_texture  |-> info[name].tile_texture,
    tile_terrain  |-> info[name].tile_type,
    digging       |-> None ]

\* ---------------------------------------------------- map generation
GroundLo == MapSize \div 2 - 1
GroundHi == MapSize \div 2 + 1
GroundPositions == (GroundLo .. GroundHi) \X (GroundLo .. GroundHi)

\* Entity ids in spawn order: the tilemap, the ice tiles (x outer, y inner),
\* the ground tiles (x outer, y inner).
IceId(tilemap_id, pos) == tilemap_id + 1 + pos[1] * MapSize + pos[2]
GroundId(tilemap_id, pos) ==
  tilemap_id + 1 + MapSize * MapSize + (pos[1] - GroundLo) * 3 + (pos[2] - GroundLo)

\* The tile entities create_map spawns: one "ice" tile per position, then one
\* "ground" tile per position of the central 3 x 3 block.
create_map_tiles(info, tilemap_id) ==
  [ id \in {IceId(tilemap_id, p) : p \in Positions}
            \cup {GroundId(tilemap_id, p) : p \in GroundPositions} |->
      IF id <= tilemap_id + MapSize * MapSize
      THEN create_bundle(info, "ice",
                         CHOOSE p \in Positions : IceId(tilemap_id, p) = id,
                         tilemap_id, FALSE)
      ELSE create_bundle(info, "ground",
                         CHOOSE p \in GroundPositions : GroundId(tilemap_id, p) = id,
                         tilemap_id, TRUE) ]

\* The TileStorage create_map builds: the second loop's set overwrites the first's.
create_map_storage(tilemap_id) ==
  [ p \in Positions |-> IF p \in GroundPositions THEN GroundId(tilemap_id, p)
                                                  ELSE IceId(tilemap_id, p) ]

\* Mutant: create_map asks for the loading state again.
create_map_next_state_back == "LoadingAssets"

\* The state create_map asks for next (map.rs: next_map_state.set)
create_map_next_state == "Generated"

\* ------------------------------------------------------ initial state
AssetHandles == {"texture", "tile_info"}

\* main.rs: insert_resource(LoadingAssets { assets: Vec::new() }); nothing pushes to it
LoadingAssets == <<>>

GameInit ==
  /\ phase = "Startup"
  /\ panicked = FALSE
  /\ first_frame = TRUE
  /\ delta = 0
  /\ fixed_acc = 0
  /\ asset_state = [h \in AssetHandles |-> "None"]
  /\ tile_info = None
  /\ map_state = "LoadingAssets"
  /\ next_map_state = None
  /\ main_state = "Loading"
  /\ next_main_state = None
  /\ st_done = {}
  /\ tilemap = None
  /\ tile_storage = <<>>
  /\ tiles = <<>>
  /\ next_entity = 0
  /\ player = None
  /\ ran = {}
  /\ cmds = <<>>
  /\ changed = {}
  /\ moves_started = 0
  /\ create_map_runs = 0
  /\ pressed = "None"

PureIdle ==
  /\ handles = <<>>
  /\ load_result = "unset"
  /\ main_load_result = "unset"
  /\ bitmask = 0
  /\ offset = -1
  /\ tile_pos = <<0, 0>>
  /\ new_index = -1

Init ==
  /\ GameInit
  /\ registry \in Registries
  /\ PureIdle

\* ----------------------------------------------------- frame schedule
\* Startup: load_map_assets asks the asset server for both assets.
load_map_assets ==
  /\ phase = "Startup" /\ ~panicked
  /\ asset_state' = [h \in AssetHandles |-> "Loading"]
  /\ phase' = "First"
  /\ UNCHANGED <<panicked, first_frame, delta, fixed_acc, registry, tile_info,
                 map_state, next_map_state, main_state, next_main_state, st_done,
                 tilemap, tile_storage, tiles, next_entity, player, ran, cmds,
                 changed, moves_started, create_map_runs>>
  /\ UNCHANGED pressed
  /\ UNCHANGED pureVars

\* The schedule that follows the asset update: StateTransition has work only
\* when a NextState is set.
\* RunFixedUpdateLoop runs FixedUpdate while a whole step has accumulated.
AfterFixed(acc) == IF acc >= FixedTimestep THEN "FixedUpdate" ELSE "Update"

AfterAssets(nmap, nmain, acc) ==
  IF nmap = None /\ nmain = None THEN AfterFixed(acc) ELSE "StateTransition"

\* First: Time advances by the frame's delta (zero on the first frame), and the
\* fixed-step clock accumulates it.
FrameStart ==
  /\ phase = "First" /\ ~panicked
  /\ \E d \in (IF first_frame THEN {0} ELSE 1 .. MaxDelta) :
       /\ delta' = d
       /\ fixed_acc' = fixed_acc + d
  /\ first_frame' = FALSE
  /\ st_done' = {}
  /\ ran' = {}
  /\ phase' = IF \E h \in AssetHandles : asset_state[h] = "Loading"
              THEN "UpdateAssets"
              ELSE AfterAssets(next_map_state, next_main_state, fixed_acc')
  /\ UNCHANGED <<panicked, asset_state, registry, tile_info, map_state,
                 next_map_state, main_state, next_main_state, tilemap,
                 tile_storage, tiles, next_entity, player, cmds, changed,
                 moves_started, create_map_runs>>
  /\ UNCHANGED pressed
  /\ UNCHANGED pureVars

\* The asset server records what the loader tasks finished since the last
\* frame: a Loading asset stays Loading, becomes Loaded or becomes Failed.
handle_internal_asset_events ==
  /\ phase = "UpdateAssets" /\ ~panicked
  /\ \E new \in [AssetHandles -> {"Loading", "Loaded", "Failed"}] :
       /\ \A h \in AssetHandles : asset_state[h] # "Loading" => new[h] = asset_state[h]
       /\ asset_state' = new
  /\ phase' = AfterAssets(next_map_state, next_main_state, fixed_acc)
  /\ UNCHANGED <<panicked, first_frame, delta, fixed_acc, registry, tile_info,
                 map_state, next_map_state, main_state, next_main_state, st_done,
                 tilemap, tile_storage, tiles, next_entity, player, ran, cmds,
                 changed, moves_started, create_map_runs>>
  /\ UNCHANGED pressed
  /\ UNCHANGED pureVars

\* ---------------------------------------------------- state transitions
AfterTransition(done, acc) ==
  IF done = {"Map", "Main"} THEN AfterFixed(acc) ELSE "StateTransition"

\* player.rs spawn_player (OnEnter(MainStates::InGame))
spawn_player ==
  [ grid_pos  |-> <<MapSize \div 2, MapSize \div 2>>,
    transform |-> <<(MapSize \div 2) * TileSize, (MapSize \div 2) * TileSize, 1>>,
    move_to   |-> None ]

\* apply_state_transition::<MainStates>: takes NextState; a state different
\* from the current one is entered and its OnEnter schedule runs.
apply_state_transition_Main ==
  /\ phase = "StateTransition" /\ ~panicked /\ "Main" \notin st_done
  /\ st_done' = st_done \cup {"Main"}
  /\ phase' = AfterTransition(st_done', fixed_acc)
  /\ next_main_state' = None
  /\ IF next_main_state # None /\ next_main_state[1] # main_state
     THEN /\ main_state' = next_main_state[1]
          /\ player' = IF next_main_state[1] = "InGame" THEN Some(spawn_player)
                                                         ELSE player
     ELSE UNCHANGED <<main_state, player>>
  /\ UNCHANGED <<panicked, first_frame, delta, fixed_acc, asset_state, registry,
                 tile_info, map_state, next_map_state, tilemap, tile_storage,
                 tiles, next_entity, ran, cmds, changed, moves_started,
                 create_map_runs>>
  /\ UNCHANGED pressed
  /\ UNCHANGED pureVars

\* apply_state_transition::<MapStates>; entering Ready runs create_map
\* (OnEnter(MapStates::Ready)), whose commands are applied when it returns.
apply_state_transition_Map ==
  /\ phase = "StateTransition" /\ ~panicked /\ "Map" \notin st_done
  /\ st_done' = st_done \cup {"Map"}
  /\ IF next_map_state # None /\ next_map_state[1] # map_state
     THEN /\ map_state' = next_map_state[1]
          /\ IF next_map_state[1] = "Ready"
             THEN IF tile_info = None
                  THEN \* Res<TileInfo> does not exist: the system panics
                       /\ panicked' = TRUE
                       /\ UNCHANGED <<phase, next_map_state, next_main_state, tilemap,
                                      tile_storage, tiles, next_entity, changed,
                                      create_map_runs>>
                  ELSE \* create_map
                       /\ tilemap' = Some(next_entity)
                       /\ tiles' = create_map_tiles(tile_info[1], next_entity) @@ tiles
                       /\ tile_storage' = create_map_storage(next_entity)
                       /\ next_entity' = next_entity + 1 + MapSize * MapSize + 9
                       /\ changed' = changed \cup DOMAIN create_map_tiles(tile_info[1], next_entity)
                       /\ next_map_state' = Some(create_map_next_state)
                       /\ next_main_state' = Some("InGame")
                       /\ create_map_runs' = create_map_runs + 1
                       /\ phase' = AfterTransition(st_done', fixed_acc)
                       /\ UNCHANGED panicked
             ELSE /\ next_map_state' = None
                  /\ phase' = AfterTransition(st_done', fixed_acc)
                  /\ UNCHANGED <<panicked, next_main_state, tilemap, tile_storage,
                                 tiles, next_entity, changed, create_map_runs>>
     ELSE /\ next_map_state' = None
          /\ phase' = AfterTransition(st_done', fixed_acc)
          /\ UNCHANGED <<panicked, map_state, next_main_state, tilemap, tile_storage,
                         tiles, next_entity, changed, create_map_runs>>
  /\ UNCHANGED <<first_frame, delta, fixed_acc, asset_state, registry, tile_info,
                 main_state, player, ran, cmds, moves_started>>
  /\ UNCHANGED pressed
  /\ UNCHANGED pureVars

\* ------------------------------------------------------- FixedUpdate
\* Vec2::lerp(start, end, elapsed / duration), kept exact as <<x, y, den>>
\* standing for (x / den, y / den)
lerp(start, end, elapsed, duration) ==
  << start[1] * duration + (end[1] - start[1]) * elapsed,
     start[2] * duration + (end[2] - start[2]) * elapsed,
     duration >>

\* Mutant: the move is over only once the elapsed time exceeds the duration.
animate_step_late(pl, dt) ==
  IF pl.move_to = None THEN pl
  ELSE LET m == pl.move_to[1]
           e == m.elapsed_time + dt
       IN IF e > m.movement_time
          THEN [ grid_pos  |-> m.target,
                 transform |-> <<center_in_world(m.target)[1],
                                 center_in_world(m.target)[2], 1>>,
                 move_to   |-> None ]
          ELSE [ grid_pos  |-> pl.grid_pos,
                 transform |-> lerp(center_in_world(pl.grid_pos),
                                    center_in_world(m.target), e, m.movement_time),
                 move_to   |-> Some([m EXCEPT !.elapsed_time = e]) ]

\* The player after one animate_moveto step of `dt` quanta (the removal of
\* MoveTo is the system's only command, applied when FixedUpdate ends).
animate_step(pl, dt) ==
  IF pl.move_to = None THEN pl
  ELSE LET m == pl.move_to[1]
           e == m.elapsed_time + dt
       IN IF e >= m.movement_time
          THEN [ grid_pos  |-> m.target,
                 transform |-> <<center_in_world(m.target)[1],
                                 center_in_world(m.target)[2], 1>>,
                 move_to   |-> None ]
          ELSE [ grid_pos  |-> pl.grid_pos,
                 transform |-> lerp(center_in_world(pl.grid_pos),
                                    center_in_world(m.target), e, m.movement_time),
                 move_to   |-> Some([m EXCEPT !.elapsed_time = e]) ]

\* main.rs animate_moveto, one run of the FixedUpdate schedule
animate_moveto ==
  /\ phase = "FixedUpdate" /\ ~panicked
  /\ fixed_acc >= FixedTimestep
  /\ fixed_acc' = fixed_acc - FixedTimestep
  /\ IF tilemap = None
     THEN \* tilemap_query.single() finds no tilemap
          /\ panicked' = TRUE
          /\ UNCHANGED <<phase, player>>
     ELSE /\ player' = IF player = None THEN player
                       ELSE Some(animate_step(player[1], FixedTimestep))
          /\ phase' = AfterFixed(fixed_acc')
          /\ UNCHANGED panicked
  /\ UNCHANGED <<first_frame, delta, asset_state, registry, tile_info, map_state,
                 next_map_state, main_state, next_main_state, st_done, tilemap,
                 tile_storage, tiles, next_entity, ran, cmds, changed,
                 moves_started, create_map_runs>>
  /\ UNCHANGED pressed
  /\ UNCHANGED pureVars

\* ------------------------------------------------------------ Update
\* The Update systems whose run condition holds.
UpdateSystems ==
  (IF main_state = "Loading" THEN {"detect_assets_loaded"} ELSE {})
  \cup (IF map_state = "LoadingAssets" THEN {"check_map_asset_loading"} ELSE {})
  \cup (IF main_state = "InGame" THEN {"update_tile_digging", "move_player"} ELSE {})

CanRun(sys) == phase = "Update" /\ ~panicked /\ sys \in UpdateSystems /\ sys \notin ran

\* The load state the asset server reports for each handle of a list.
HandleStates(hs) == [i \in 1 .. Len(hs) |-> asset_state[hs[i]]]

\* main.rs detect_assets_loaded
detect_assets_loaded ==
  /\ CanRun("detect_assets_loaded")
  /\ ran' = ran \cup {"detect_assets_loaded"}
  /\ next_main_state' =
       IF main_get_group_load_state(HandleStates(LoadingAssets)) = "Loaded"
       THEN Some("InGame") ELSE next_main_state
  /\ UNCHANGED <<phase, panicked, first_frame, delta, fixed_acc, asset_state,
                 registry, tile_info, map_state, next_map_state, main_state,
                 st_done, tilemap, tile_storage, tiles, next_entity, player, cmds,
                 changed, moves_started, create_map_runs>>
  /\ UNCHANGED pressed
  /\ UNCHANGED pureVars

\* map.rs check_map_asset_loading
check_map_asset_loading ==
  /\ CanRun("check_map_asset_loading")
  /\ ran' = ran \cup {"check_map_asset_loading"}
  /\ IF get_group_load_state(HandleStates(<<"texture", "tile_info">>)) = "Loaded"
     THEN /\ next_map_state' = Some("Ready")
          /\ cmds' = Append(cmds, [op |-> "insert_tile_info"])
     ELSE UNCHANGED <<next_map_state, cmds>>
  /\ UNCHANGED <<phase, panicked, first_frame, delta, fixed_acc, asset_state,
                 registry, tile_info, map_state, main_state, next_main_state,
                 st_done, tilemap, tile_storage, tiles, next_entity, player,
                 changed, moves_started, create_map_runs>>
  /\ UNCHANGED pressed
  /\ UNCHANGED pureVars

\* ------------------------------------------------------- move_player
Keys == {"None", "D", "S", "A", "W"}

\* Mutant: the D key selects the diagonal step (1, 1).
move_target_diagonal(key) ==
  CASE key = "D" -> <<1, 1>>
    [] key = "S" -> <<0, -1>>
    [] key = "A" -> <<-1, 0>>
    [] key = "W" -> <<0, 1>>
    [] OTHER     -> <<0, 0>>

\* The IVec2 the pressed key selects (IVec2::ZERO for none)
move_target(key) ==
  CASE key = "D" -> <<1, 0>>
    [] key = "S" -> <<0, -1>>
    [] key = "A" -> <<-1, 0>>
    [] key = "W" -> <<0, 1>>
    [] OTHER     -> <<0, 0>>

\* player.rs: let time = 0.5 * (1.0 + hardness)
dig_time(hardness) == HalfUnit * (1 + hardness)

\* Mutant: a Diggable target only starts the dig; no MoveTo is created.
move_player_cmds_digonly(tile_entity, terrain, new_pos) ==
  CASE terrain.kind = "Walkable" ->
         << [op |-> "insert_moveto", target |-> new_pos, time |-> HalfUnit] >>
    [] terrain.kind = "Diggable" ->
         << [op |-> "insert_digging", entity |-> tile_entity,
             time |-> dig_time(terrain.hardness)] >>
    [] OTHER -> << >>

\* Mutant: an Impassable target is entered like a Walkable one.
move_player_cmds_enter(tile_entity, terrain, new_pos) ==
  CASE terrain.kind = "Diggable" ->
         << [op |-> "insert_digging", entity |-> tile_entity,
             time |-> dig_time(terrain.hardness)],
            [op |-> "insert_moveto", target |-> new_pos,
             time |-> dig_time(terrain.hardness)] >>
    [] OTHER ->
         << [op |-> "insert_moveto", target |-> new_pos, time |-> HalfUnit] >>

\* Mutant: a Walkable target is dug as well.
move_player_cmds_digall(tile_entity, terrain, new_pos) ==
  CASE terrain.kind = "Walkable" ->
         << [op |-> "insert_digging", entity |-> tile_entity, time |-> HalfUnit],
            [op |-> "insert_moveto", target |-> new_pos, time |-> HalfUnit] >>
    [] terrain.kind = "Diggable" ->
         << [op |-> "insert_digging", entity |-> tile_entity,
             time |-> dig_time(terrain.hardness)],
            [op |-> "insert_moveto", target |-> new_pos,
             time |-> dig_time(terrain.hardness)] >>
    [] OTHER -> << >>

\* Mutant: the move into a Diggable tile takes 0.5 whatever the hardness, so
\* the actor is free again while the dig is still under way.
move_player_cmds_fastmove(tile_entity, terrain, new_pos) ==
  CASE terrain.kind = "Walkable" ->
         << [op |-> "insert_moveto", target |-> new_pos, time |-> HalfUnit] >>
    [] terrain.kind = "Diggable" ->
         << [op |-> "insert_digging", entity |-> tile_entity,
             time |-> dig_time(terrain.hardness)],
            [op |-> "insert_moveto", target |-> new_pos, time |-> HalfUnit] >>
    [] OTHER -> << >>

\* The commands move_player queues for a target tile of the given terrain
\* (none for Impassable: the system returns).
move_player_cmds(tile_entity, terrain, new_pos) ==
  CASE terrain.kind = "Walkable" ->
         << [op |-> "insert_moveto", target |-> new_pos, time |-> HalfUnit] >>
    [] terrain.kind = "Diggable" ->
         << [op |-> "insert_digging", entity |-> tile_entity,
             time |-> dig_time(terrain.hardness)],
            [op |-> "insert_moveto", target |-> new_pos,
             time |-> dig_time(terrain.hardness)] >>
    [] OTHER -> << >>

\* The tile a key press asks to enter: None when there is no intent or the
\* target lies outside the map.
RequestedPos(key) ==
  IF move_target(key) = <<0, 0>> THEN None
  ELSE from_i32_pair(player[1].grid_pos[1] + move_target(key)[1],
                     player[1].grid_pos[2] + move_target(key)[2])

\* The request creates a MoveTo (used to bound the number of moves).
StartsMove(key) ==
  /\ RequestedPos(key) # None
  /\ tile_storage[RequestedPos(key)[1]] \in DOMAIN tiles
  /\ tiles[tile_storage[RequestedPos(key)[1]]].tile_terrain.kind # "Impassable"

\* player.rs move_player
move_player ==
  /\ CanRun("move_player")
  /\ ran' = ran \cup {"move_player"}
  /\ IF tilemap = None
     THEN \* map_query.single() finds no tilemap
          /\ panicked' = TRUE
          /\ UNCHANGED <<cmds, moves_started, pressed>>
     ELSE IF player = None \/ player[1].move_to # None
     THEN \* player_query (Without<MoveTo>) has no match: the input is not read
          UNCHANGED <<panicked, cmds, moves_started, pressed>>
     ELSE \E key \in Keys :
            /\ pressed' = key
            /\ StartsMove(key) => moves_started < MaxMoves
            /\ IF RequestedPos(key) = None
               THEN UNCHANGED <<panicked, cmds, moves_started>>
               ELSE LET new_pos == RequestedPos(key)[1]
                        tile_entity == tile_storage[new_pos]
                    IN IF tile_entity \notin DOMAIN tiles
                       THEN \* tile_query.get(tile_entity) fails: expect panics
                            /\ panicked' = TRUE
                            /\ UNCHANGED <<cmds, moves_started>>
                       ELSE /\ cmds' = cmds \o move_player_cmds(tile_entity,
                                           tiles[tile_entity].tile_terrain, new_pos)
                            /\ moves_started' = IF StartsMove(key) THEN moves_started + 1
                                                                   ELSE moves_started
                            /\ UNCHANGED panicked
  /\ UNCHANGED <<phase, first_frame, delta, fixed_acc, asset_state, registry,
                 tile_info, map_state, next_map_state, main_state, next_main_state,
                 st_done, tilemap, tile_storage, tiles, next_entity, player,
                 changed, create_map_runs>>
  /\ UNCHANGED pureVars

\* ----------------------------------------------- update_tile_digging
\* Mutant: the timer is finished only once the elapsed time exceeds the duration.
timer_finished_strict(elapsed, duration) == elapsed > duration

\* Mutant: the timer never finishes.
timer_finished_never(elapsed, duration) == FALSE

\* Timer::finished after Timer::tick
timer_finished(elapsed, duration) == elapsed >= duration

\* Mutant: the finished tile is not despawned.
dig_finish_cmds_keep(e, t, info, new_entity) ==
  << [op |-> "spawn", entity |-> new_entity,
      bundle |-> create_bundle(info, "ground", t.position, t.tilemap_id, TRUE)] >>

\* The commands update_tile_digging queues for a finished tile e with
\* components t: despawn e, spawn a "ground" tile at the same position under
\* the same tilemap.
dig_finish_cmds(e, t, info, new_entity) ==
  << [op |-> "despawn", entity |-> e],
     [op |-> "spawn", entity |-> new_entity,
      bundle |-> create_bundle(info, "ground", t.position, t.tilemap_id, TRUE)] >>

\* The tile entities that carry TileDigging
DiggingTiles(ts) == {e \in DOMAIN ts : ts[e].digging # None}

MinOf(S) == CHOOSE x \in S : \A y \in S : x <= y

\* The loop of update_tile_digging over the digging tiles: every timer is
\* ticked by dt; a finished one queues the despawn of its tile and the spawn of
\* a "ground" tile, and sets the storage entry at once.
RECURSIVE dig_loop(_, _, _, _)
dig_loop(todo, dt, info, st) ==
  IF todo = {} THEN st
  ELSE LET e == MinOf(todo)
           t == st.tiles[e]
           el == t.digging[1].elapsed + dt
           dur == t.digging[1].duration
           ticked == [st.tiles EXCEPT ![e].digging =
                        Some([elapsed |-> Min(el, dur), duration |-> dur])]
       IN IF timer_finished(el, dur)
          THEN dig_loop(todo \ {e}, dt, info,
                 [ tiles   |-> ticked,
                   storage |-> [st.storage EXCEPT ![t.position] = st.next],
                   cmds    |-> st.cmds \o dig_finish_cmds(e, t, info, st.next),
                   next    |-> st.next + 1 ])
          ELSE dig_loop(todo \ {e}, dt, info, [st EXCEPT !.tiles = ticked])

\* map.rs update_tile_digging
update_tile_digging ==
  /\ CanRun("update_tile_digging")
  /\ ran' = ran \cup {"update_tile_digging"}
  /\ IF tile_info = None
     THEN \* Res<TileInfo> does not exist
          /\ panicked' = TRUE
          /\ UNCHANGED <<tiles, tile_storage, cmds, next_entity>>
     ELSE LET r == dig_loop(DiggingTiles(tiles), delta, tile_info[1],
                            [tiles |-> tiles, storage |-> tile_storage,
                             cmds |-> cmds, next |-> next_entity])
          IN /\ tiles' = r.tiles
             /\ tile_storage' = r.storage
             /\ cmds' = r.cmds
             /\ next_entity' = r.next
             /\ UNCHANGED panicked
  /\ UNCHANGED <<phase, first_frame, delta, fixed_acc, asset_state, registry,
                 tile_info, map_state, next_map_state, main_state, next_main_state,
                 st_done, tilemap, player, changed, moves_started, create_map_runs>>
  /\ UNCHANGED pressed
  /\ UNCHANGED pureVars

\* --------------------------------------------------- deferred commands
\* One command applied to the world [tiles, player, tile_info, changed, panicked].
apply_command(c, w) ==
  CASE c.op = "insert_tile_info" -> [w EXCEPT !.tile_info = Some(registry)]
    [] c.op = "insert_moveto" ->
         [w EXCEPT !.player = Some([w.player[1] EXCEPT !.move_to =
             Some([target |-> c.target, elapsed_time |-> 0, movement_time |-> c.time])])]
    [] c.op = "insert_digging" ->
         IF c.entity \in DOMAIN w.tiles
         THEN [w EXCEPT !.tiles[c.entity].digging =
                 Some([elapsed |-> 0, duration |-> c.time])]
         ELSE \* insert on an entity that no longer exists panics
              [w EXCEPT !.panicked = TRUE]
    [] c.op = "despawn" ->
         [w EXCEPT !.tiles = [e \in DOMAIN w.tiles \ {c.entity} |-> w.tiles[e]],
                   !.changed = w.changed \ {c.entity}]
    [] c.op = "spawn" ->
         [w EXCEPT !.tiles = (c.entity :> c.bundle) @@ w.tiles,
                   !.changed = w.changed \cup {c.entity}]

RECURSIVE apply_commands(_, _, _)
apply_commands(cs, i, w) ==
  IF i > Len(cs) \/ w.panicked THEN w
  ELSE apply_commands(cs, i + 1, apply_command(cs[i], w))

\* PostUpdate's systems run in state InGame; both only iterate over changed
\* tiles, so the schedule is passed over when no tile changed.
AfterUpdate(chg) == IF main_state = "InGame" /\ chg # {} THEN "PostUpdate" ELSE "First"

\* The end of the Update schedule: the queued commands are applied.
apply_deferred_Update ==
  /\ phase = "Update" /\ ~panicked
  /\ ran = UpdateSystems
  /\ LET w == apply_commands(cmds, 1,
                [tiles |-> tiles, player |-> player, tile_info |-> tile_info,
                 changed |-> changed, panicked |-> FALSE])
     IN /\ tiles' = w.tiles
        /\ player' = w.player
        /\ tile_info' = w.tile_info
        /\ changed' = w.changed
        /\ panicked' = w.panicked
  /\ cmds' = << >>
  /\ ran' = {}
  /\ pressed' = "None"
  /\ phase' = IF panicked' THEN phase ELSE AfterUpdate(changed')
  /\ delta' = IF AfterUpdate(changed') = "First" THEN 0 ELSE delta
  /\ UNCHANGED <<first_frame, fixed_acc, asset_state, registry, map_state,
                 next_map_state, main_state, next_main_state, st_done, tilemap,
                 tile_storage, next_entity, moves_started, create_map_runs>>
  /\ UNCHANGED pureVars

\* -------------------------------------------------------- PostUpdate
PostUpdateSystems == {"update_visibility", "update_directional_tiles"}

CanRunPost(sys) == phase = "PostUpdate" /\ ~panicked /\ sys \notin ran

\* After the last PostUpdate system the frame is over: the change flags both
\* systems read are consumed.
AfterPost(done) == IF done = PostUpdateSystems THEN "First" ELSE "PostUpdate"
ChangedAfterPost(done) == IF done = PostUpdateSystems THEN {} ELSE changed
\* The frame's delta is read by no one once the frame is over.
DeltaAfterPost(done) == IF done = PostUpdateSystems THEN 0 ELSE delta

\* Mutant: only the orthogonal neighbors are revealed.
RevealedPositions_orthogonal ==
  UNION { {NeighborPos(tiles[e].position, d) : d \in NeighborDirs(tiles[e].position, FALSE)} :
          e \in {c \in changed \cap DOMAIN tiles :
                   tiles[c].visible /\ tiles[c].tile_terrain = Walkable} }

\* The positions update_visibility reveals: the neighbors (diagonals included)
\* of every changed tile that is visible and Walkable.
RevealedPositions ==
  UNION { {NeighborPos(tiles[e].position, d) : d \in NeighborDirs(tiles[e].position, TRUE)} :
          e \in {c \in changed \cap DOMAIN tiles :
                   tiles[c].visible /\ tiles[c].tile_terrain = Walkable} }

\* map.rs update_visibility
update_visibility ==
  /\ CanRunPost("update_visibility")
  /\ ran' = ran \cup {"update_visibility"}
  /\ IF tilemap = None
     THEN \* tile_storage.single() finds no tilemap
          /\ panicked' = TRUE
          /\ UNCHANGED <<phase, tiles, changed, delta>>
     ELSE IF \E p \in RevealedPositions : tile_storage[p] \notin DOMAIN tiles
     THEN \* tile_query.get_mut(tile_entity).unwrap()
          /\ panicked' = TRUE
          /\ UNCHANGED <<phase, tiles, changed, delta>>
     ELSE /\ tiles' = [e \in DOMAIN tiles |->
                         IF \E p \in RevealedPositions : tile_storage[p] = e
                         THEN [tiles[e] EXCEPT !.visible = TRUE]
                         ELSE tiles[e]]
          /\ phase' = AfterPost(ran')
          /\ changed' = ChangedAfterPost(ran')
          /\ delta' = DeltaAfterPost(ran')
          /\ UNCHANGED panicked
  /\ UNCHANGED <<first_frame, fixed_acc, asset_state, registry, tile_info,
                 map_state, next_map_state, main_state, next_main_state, st_done,
                 tilemap, tile_storage, next_entity, player, cmds, moves_started,
                 create_map_runs>>
  /\ UNCHANGED pressed
  /\ UNCHANGED pureVars

RECURSIVE SumBits(_)
SumBits(ds) ==
  IF ds = {} THEN 0
  ELSE LET d == CHOOSE x \in ds : TRUE
       IN get_direction_bit(d) + SumBits(ds \ {d})

\* Mutant: the bits of the neighbors of the SAME TileType are summed.
tile_mask_same(ts, storage, pos) ==
  SumBits({ d \in NeighborDirs(pos, FALSE) :
              ts[storage[NeighborPos(pos, d)]].tile_type = ts[storage[pos]].tile_type })

\* The mask update_tile computes for the tile stored at pos: the bits of the
\* in-bounds orthogonal neighbors whose TileType differs.
tile_mask(ts, storage, pos) ==
  SumBits({ d \in NeighborDirs(pos, FALSE) :
              ts[storage[NeighborPos(pos, d)]].tile_type # ts[storage[pos]].tile_type })

\* map.rs update_tile: the texture index of the tile stored at pos
update_tile(ts, storage, pos) ==
  LET t == ts[storage[pos]]
  IN IF t.tile_texture.kind = "Directional"
     THEN t.tile_texture.ind + map_bitmask_to_offset(tile_mask(ts, storage, pos))
     ELSE t.texture_index

\* Mutant: only the changed tiles themselves are recomputed, not their neighbors.
UpdatedPositions_self == { tiles[e].position : e \in changed \cap DOMAIN tiles }

\* The positions update_directional_tiles recomputes: every changed tile's
\* position and its in-bounds orthogonal neighbors.
UpdatedPositions ==
  UNION { {tiles[e].position}
          \cup {NeighborPos(tiles[e].position, d) : d \in NeighborDirs(tiles[e].position, FALSE)} :
          e \in changed \cap DOMAIN tiles }

\* map.rs update_directional_tiles
update_directional_tiles ==
  /\ CanRunPost("update_directional_tiles")
  /\ ran' = ran \cup {"update_directional_tiles"}
  /\ IF tilemap = None
     THEN \* tile_storage.get_single() is Err: nothing happens
          UNCHANGED <<panicked, tiles>>
     ELSE IF \E p \in Positions : tile_storage[p] \notin DOMAIN tiles
     THEN \* a tile or neighbor "is missing necessary components"
          /\ panicked' = TRUE
          /\ UNCHANGED tiles
     ELSE /\ tiles' = [e \in DOMAIN tiles |->
                         IF \E p \in UpdatedPositions : tile_storage[p] = e
                         THEN [tiles[e] EXCEPT !.texture_index =
                                 update_tile(tiles, tile_storage, tiles[e].position)]
                         ELSE tiles[e]]
          /\ UNCHANGED panicked
  /\ phase' = IF panicked' THEN phase ELSE AfterPost(ran')
  /\ changed' = IF panicked' THEN changed ELSE ChangedAfterPost(ran')
  /\ delta' = IF panicked' THEN delta ELSE DeltaAfterPost(ran')
  /\ UNCHANGED <<first_frame, fixed_acc, asset_state, registry, tile_info,
                 map_state, next_map_state, main_state, next_main_state, st_done,
                 tilemap, tile_storage, next_entity, player, cmds, moves_started,
                 create_map_runs>>
  /\ UNCHANGED pressed
  /\ UNCHANGED pureVars

\* ------------------------------------------------------ specification
Next ==
  \/ load_map_assets
  \/ FrameStart
  \/ handle_internal_asset_events
  \/ apply_state_transition_Main
  \/ apply_state_transition_Map
  \/ animate_moveto
  \/ detect_assets_loaded
  \/ check_map_asset_loading
  \/ move_player
  \/ update_tile_digging
  \/ apply_deferred_Update
  \/ update_visibility
  \/ update_directional_tiles

Spec == Init /\ [][Next]_vars

\* The texture rules have no part in timers and moves: the specification with
\* fairness starts from the registries of one texture arrangement.
LiveRegistries == {r \in Registries : r.ice.tile_texture.kind = "Single"}

InitLive ==
  /\ GameInit
  /\ registry \in LiveRegistries
  /\ PureIdle

\* The app's runner keeps running frames: a frame that can go on does go on.
SpecLive == InitLive /\ [][Next]_vars /\ WF_vars(Next)

\* ------------------------------------- pure functions, applied to inputs
\* Sequences of load states of length at most n
RECURSIVE SeqsUpTo(_)
SeqsUpTo(n) ==
  IF n = 0 THEN { << >> }
  ELSE SeqsUpTo(n - 1)
       \cup { Append(q, x) : q \in {r \in SeqsUpTo(n - 1) : Len(r) = n - 1}, x \in LoadStates }

SomeRegistry == CHOOSE r \in Registries : TRUE

InitLoad ==
  /\ GameInit
  /\ registry = SomeRegistry
  /\ handles \in SeqsUpTo(MaxHandles)
  /\ load_result = "unset"
  /\ main_load_result = "unset"
  /\ bitmask = 0
  /\ offset = -1
  /\ tile_pos = <<0, 0>>
  /\ new_index = -1

\* map.rs get_group_load_state applied to the handles
apply_map_get_group_load_state ==
  /\ load_result = "unset"
  /\ load_result' = get_group_load_state(handles)
  /\ UNCHANGED <<handles, main_load_result, bitmask, offset, tile_pos, new_index>>
  /\ UNCHANGED gameVars

\* main.rs get_group_load_state applied to the handles
apply_main_get_group_load_state ==
  /\ main_load_result = "unset"
  /\ main_load_result' = main_get_group_load_state(handles)
  /\ UNCHANGED <<handles, load_result, bitmask, offset, tile_pos, new_index>>
  /\ UNCHANGED gameVars

NextLoad == apply_map_get_group_load_state \/ apply_main_get_group_load_state

SpecLoad == InitLoad /\ [][NextLoad]_vars

InitMask ==
  /\ GameInit
  /\ registry = SomeRegistry
  /\ handles = << >>
  /\ load_result = "unset"
  /\ main_load_result = "unset"
  /\ bitmask \in 0 .. U8Max
  /\ offset = -1
  /\ tile_pos = <<0, 0>>
  /\ new_index = -1

\* map.rs map_bitmask_to_offset applied to the bitmask
apply_map_bitmask_to_offset ==
  /\ offset = -1
  /\ offset' = map_bitmask_to_offset(bitmask)
  /\ UNCHANGED <<handles, load_result, main_load_result, bitmask, tile_pos, new_index>>
  /\ UNCHANGED gameVars

NextMask == apply_map_bitmask_to_offset

SpecMask == InitMask /\ [][NextMask]_vars

\* The tile definitions whose "ice" can be dug: with them every arrangement of
\* ice and ground around a tile can come about.
DiggableRegistries == {r \in Registries : r.ice.tile_type.kind = "Diggable"}

TileTypes == {"ice", "ground"}

\* The subject position and its in-bounds orthogonal neighbors
Neighborhood(pos) == {pos} \cup {NeighborPos(pos, d) : d \in NeighborDirs(pos, FALSE)}

\* The maps update_tile is applied to: every assignment of a definition to the
\* subject and its neighbors, "ice" elsewhere.
Layouts(pos) ==
  { [p \in Positions |-> IF p \in Neighborhood(pos) THEN l[p] ELSE "ice"] :
      l \in [Neighborhood(pos) -> TileTypes] }

\* The tile entities of a map with the given layout (one per position, in
\* the order create_map spawns the first layer)
layout_tiles(info, tilemap_id, l) ==
  [ id \in {IceId(tilemap_id, p) : p \in Positions} |->
      LET p == CHOOSE q \in Positions : IceId(tilemap_id, q) = id
      IN create_bundle(info, l[p], p, tilemap_id, TRUE) ]

layout_storage(tilemap_id) == [p \in Positions |-> IceId(tilemap_id, p)]

InitTile ==
  /\ phase = "Startup"
  /\ panicked = FALSE
  /\ first_frame = TRUE
  /\ delta = 0
  /\ fixed_acc = 0
  /\ asset_state = [h \in AssetHandles |-> "Loaded"]
  /\ registry \in DiggableRegistries
  /\ tile_info = Some(registry)
  /\ map_state = "Generated"
  /\ next_map_state = None
  /\ main_state = "InGame"
  /\ next_main_state = None
  /\ st_done = {}
  /\ tilemap = Some(0)
  /\ tile_pos \in Positions
  /\ \E l \in Layouts(tile_pos) : tiles = layout_tiles(registry, 0, l)
  /\ tile_storage = layout_storage(0)
  /\ next_entity = 1 + MapSize * MapSize
  /\ player = None
  /\ ran = {}
  /\ cmds = <<>>
  /\ changed = {}
  /\ moves_started = 0
  /\ create_map_runs = 1
  /\ pressed = "None"
  /\ handles = << >>
  /\ load_result = "unset"
  /\ main_load_result = "unset"
  /\ bitmask = 0
  /\ offset = -1
  /\ new_index = -1

\* map.rs update_tile applied to the tile at tile_pos
apply_update_tile ==
  /\ new_index = -1
  /\ new_index' = update_tile(tiles, tile_storage, tile_pos)
  /\ tiles' = [tiles EXCEPT ![tile_storage[tile_pos]].texture_index = new_index']
  /\ UNCHANGED <<phase, panicked, first_frame, delta, fixed_acc, asset_state,
                 registry, tile_info, map_state, next_map_state, main_state,
                 next_main_state, st_done, tilemap, tile_storage, next_entity,
                 player, ran, cmds, changed, moves_started, create_map_runs,
                 pressed>>
  /\ UNCHANGED <<handles, load_result, main_load_result, bitmask, offset, tile_pos>>

NextTile == apply_update_tile

SpecTile == InitTile /\ [][NextTile]_vars

\* ===================================================================
\* Claims
\* ===================================================================
Results == {load_result, main_load_result} \ {"unset"}

CleanHandles == \A i \in 1 .. Len(handles) : handles[i] \in {"Loaded", "Loading"}

Permuted(hs, f) == [i \in 1 .. Len(hs) |-> hs[f[i]]]

\* C7: over handles none of which is Failed, NotLoaded or unknown, the
\* aggregate is Loaded exactly when every handle is Loaded (so the empty
\* sequence gives Loaded), it is Loading when some handle is Loading, and
\* every reordering of the handles gives the same aggregate.
C7_CleanAggregate ==
  CleanHandles =>
    \A r \in Results :
      /\ (r = "Loaded") <=> (\A i \in 1 .. Len(handles) : handles[i] = "Loaded")
      /\ (\E i \in 1 .. Len(handles) : handles[i] = "Loading") => r = "Loading"
      /\ \A f \in Permutations(1 .. Len(handles)) :
           /\ get_group_load_state(Permuted(handles, f)) = r
           /\ main_get_group_load_state(Permuted(handles, f)) = r

C7_Witness ==
  /\ Len(handles) >= 2
  /\ handles[1] = "Loading" /\ handles[Len(handles)] = "Loaded"
  /\ load_result = "Loading" /\ main_load_result = "Loading"

\* C8 as stated: whenever some handle reports Failed, the aggregate is Failed.
C8_FailedAnywhere ==
  (\E i \in 1 .. Len(handles) : handles[i] = "Failed") =>
    \A r \in Results : r = "Failed"

\* C8 amended: whenever some handle reports Failed and no handle before it is
\* NotLoaded or unknown, the aggregate is Failed, whatever the handles after
\* it report.
C8_FailedFirstDominates ==
  (\E i \in 1 .. Len(handles) :
      /\ handles[i] = "Failed"
      /\ \A j \in 1 .. i - 1 : handles[j] \notin {"NotLoaded", "None"}) =>
    \A r \in Results : r = "Failed"

C8_Witness ==
  /\ Len(handles) >= 3
  /\ handles[1] = "Loading" /\ handles[2] = "Failed" /\ handles[3] = "None"
  /\ load_result = "Failed" /\ main_load_result = "Failed"

\* C9 as stated: whenever some handle is unknown to the loader, the aggregate
\* is NotLoaded.
C9_UnknownAnywhere ==
  (\E i \in 1 .. Len(handles) : handles[i] = "None") =>
    \A r \in Results : r = "NotLoaded"

\* C9 amended: whenever some handle is unknown to the loader and no handle
\* before it reports Failed, the aggregate is NotLoaded, whatever the handles
\* after it report.
C9_UnknownFirstDominates ==
  (\E i \in 1 .. Len(handles) :
      /\ handles[i] = "None"
      /\ \A j \in 1 .. i - 1 : handles[j] # "Failed") =>
    \A r \in Results : r = "NotLoaded"

C9_Witness ==
  /\ Len(handles) >= 3
  /\ handles[1] = "Loading" /\ handles[2] = "None" /\ handles[3] = "Failed"
  /\ load_result = "NotLoaded" /\ main_load_result = "NotLoaded"

\* The table of spec section 4.2, indexed by mask + 1
OffsetTable == <<0, 2, 3, 6, 4, 11, 7, 13, 5, 9, 10, 12, 8, 15, 14, 1>>

\* C10: the offset returned for a mask in 0..15 is the table's value, no two
\* masks in 0..15 get the same offset, and a mask above 15 gets offset 0.
C10_OffsetTable ==
  /\ offset # -1 =>
       offset = IF bitmask <= 15 THEN OffsetTable[bitmask + 1] ELSE 0
  /\ \A m1, m2 \in 0 .. 15 :
       m1 # m2 => map_bitmask_to_offset(m1) # map_bitmask_to_offset(m2)

C10_Witness == bitmask = 5 /\ offset = 11

\* ---------------------------------------------------------- digging
Digging(ts, e) == e \in DOMAIN ts /\ ts[e].digging # None

\* The timer of tile e has reached its duration.
TimerDone(e) ==
  Digging(tiles, e) /\ tiles[e].digging[1].elapsed >= tiles[e].digging[1].duration

\* The step ends the Update schedule (its commands are applied).
UpdateEnds == phase = "Update" /\ phase' # "Update" /\ ~panicked'

\* C1: at the end of the tick on which a digging tile's timer finishes the
\* digging entity is gone and the store holds, at the same position, a live
\* new entity of the "ground" definition (Walkable, no TileDigging, same
\* tilemap); a store entry only ever changes to a fresh entity identity, and
\* between ticks every store entry is a live tile at that position, so no
\* later lookup returns the old entity.
C1_DigCompletionReplaces ==
  /\ [][ UpdateEnds =>
          \A e \in DOMAIN tiles :
            TimerDone(e) =>
              LET p == tiles[e].position
                  n == tile_storage'[p]
              IN /\ e \notin DOMAIN tiles'
                 /\ n # e
                 /\ n \in DOMAIN tiles'
                 /\ tiles'[n].tile_type = "ground"
                 /\ tiles'[n].tile_terrain = Walkable
                 /\ tiles'[n].digging = None
                 /\ tiles'[n].position = p
                 /\ tiles'[n].tilemap_id = tiles[e].tilemap_id ]_vars
  /\ [][ \A p \in DOMAIN tile_storage :
           tile_storage'[p] # tile_storage[p] =>
             /\ tile_storage'[p] >= next_entity
             /\ tile_storage'[p] \notin DOMAIN tiles ]_vars
  /\ [](phase # "Update" =>
          \A p \in DOMAIN tile_storage :
            /\ tile_storage[p] \in DOMAIN tiles
            /\ tiles[tile_storage[p]].position = p)

\* A dug position: the store holds a ground tile outside the generated block.
C1_Witness ==
  \E p \in DOMAIN tile_storage :
    /\ p \notin GroundPositions
    /\ tile_storage[p] \in DOMAIN tiles
    /\ tiles[tile_storage[p]].tile_type = "ground"
    /\ tiles[tile_storage[p]].tile_terrain = Walkable
    /\ \A e \in DOMAIN tiles :
         tiles[e].position = p /\ tiles[e].tile_type = "ice" => FALSE

\* C2: a digging tile is Diggable and its timer's duration is 0.5 * (1 + h);
\* between ticks no timer has reached its duration (the tile was replaced on
\* the tick that reached it), and a digging tile only disappears on a tick
\* at which its timer has reached the duration.
C2_DigDuration ==
  /\ [](\A e \in DOMAIN tiles :
          tiles[e].digging # None =>
            /\ tiles[e].tile_terrain.kind = "Diggable"
            /\ tiles[e].digging[1].duration = HalfUnit * (1 + tiles[e].tile_terrain.hardness)
            /\ (phase # "Update" => tiles[e].digging[1].elapsed < tiles[e].digging[1].duration))
  /\ [][ \A e \in DOMAIN tiles :
           (tiles[e].digging # None /\ e \notin DOMAIN tiles') => TimerDone(e) ]_vars

\* Hardness 1: the tile is still digging one quantum short of 1.0 time unit.
C2_Witness ==
  \E e \in DOMAIN tiles :
    /\ tiles[e].tile_terrain = Diggable(1)
    /\ tiles[e].digging # None
    /\ tiles[e].digging[1].duration = 2 * HalfUnit
    /\ tiles[e].digging[1].elapsed = 2 * HalfUnit - 1
    /\ phase = "First"

\* The step attaches TileDigging to tile e.
DigStarted(e) ==
  /\ e \in DOMAIN tiles /\ e \in DOMAIN tiles'
  /\ tiles[e].digging = None
  /\ tiles'[e].digging # None

\* C3 as stated: when a request starts a dig, the actor has no MoveTo after it.
C3_DigWithoutMove ==
  [][ \A e \in DOMAIN tiles :
        DigStarted(e) => player'[1].move_to = None ]_vars

\* C3 amended: a request against a Diggable tile starts the dig and, in the
\* same request, gives the idle actor a MoveTo to that tile whose duration is
\* the dig's duration; GridPosition is unchanged on that tick.
C3_DigStartsMove ==
  [][ \A e \in DOMAIN tiles :
        DigStarted(e) =>
          /\ tiles[e].tile_terrain.kind = "Diggable"
          /\ tiles'[e].digging[1].elapsed = 0
          /\ player[1].move_to = None
          /\ player'[1].move_to =
               Some([ target        |-> tiles[e].position,
                      elapsed_time  |-> 0,
                      movement_time |-> tiles'[e].digging[1].duration ])
          /\ player'[1].grid_pos = player[1].grid_pos ]_vars

C3_Witness ==
  /\ player # None
  /\ player[1].move_to # None
  /\ player[1].move_to[1].elapsed_time = 0
  /\ \E e \in DOMAIN tiles :
       /\ tiles[e].digging # None
       /\ tiles[e].digging[1].elapsed = 0
       /\ tiles[e].position = player[1].move_to[1].target
       /\ tiles[e].position # player[1].grid_pos

\* --------------------------------------------------------- movement
\* The rendered position equals the point (x, y) scaled by 1 / den.
RenderedAt(tr, x, y, den) == tr[1] * den = x * tr[3] /\ tr[2] * den = y * tr[3]

\* C4: while a MoveTo is present its elapsed time is below its duration, the
\* GridPosition does not change, and the rendered position is the linear
\* interpolation between the two cell centers at elapsed / duration (the exact
\* midpoint at half the duration); the step that removes the MoveTo is the
\* first whose elapsed time reaches the duration, and it leaves GridPosition at
\* the target and the rendered position at the target cell's center.
C4_MovementUpdate ==
  /\ [](player # None =>
          LET pl == player[1]
              s == center_in_world(pl.grid_pos)
          IN IF pl.move_to = None
             THEN RenderedAt(pl.transform, s[1], s[2], 1)
             ELSE LET m == pl.move_to[1]
                      t == center_in_world(m.target)
                  IN /\ m.elapsed_time < m.movement_time
                     /\ RenderedAt(pl.transform,
                                   s[1] * m.movement_time + (t[1] - s[1]) * m.elapsed_time,
                                   s[2] * m.movement_time + (t[2] - s[2]) * m.elapsed_time,
                                   m.movement_time)
                     /\ (2 * m.elapsed_time = m.movement_time =>
                           RenderedAt(pl.transform, s[1] + t[1], s[2] + t[2], 2)))
  /\ [][ (player # None /\ player[1].move_to # None) =>
           IF player'[1].move_to # None
           THEN player'[1].grid_pos = player[1].grid_pos
           ELSE /\ player[1].move_to[1].elapsed_time + FixedTimestep
                     >= player[1].move_to[1].movement_time
                /\ player'[1].grid_pos = player[1].move_to[1].target
                /\ RenderedAt(player'[1].transform,
                              center_in_world(player[1].move_to[1].target)[1],
                              center_in_world(player[1].move_to[1].target)[2], 1) ]_vars

\* Half way through a move.
C4_Witness ==
  /\ player # None
  /\ player[1].move_to # None
  /\ 2 * player[1].move_to[1].elapsed_time = player[1].move_to[1].movement_time
  /\ player[1].move_to[1].target # player[1].grid_pos

\* C5 as stated: no two live tile entities carry the same coordinate.
C5_OneLiveTilePerPos ==
  \A e1, e2 \in DOMAIN tiles :
    e1 # e2 => tiles[e1].position # tiles[e2].position

\* -------------------------------------------------------- load gates
MapRank(st) == CASE st = "LoadingAssets" -> 0 [] st = "Ready" -> 1 [] st = "Generated" -> 2
MainRank(st) == CASE st = "Loading" -> 0 [] st = "InGame" -> 1

\* C6: each gate only moves to its next state (LoadingAssets, Ready,
\* Generated; Loading, InGame), never back, and create_map has run exactly
\* once as soon as the map gate has left LoadingAssets and never before.
C6_GatesForwardOnce ==
  /\ [][ /\ MapRank(map_state') \in {MapRank(map_state), MapRank(map_state) + 1}
         /\ MainRank(main_state') \in {MainRank(main_state), MainRank(main_state) + 1}
         /\ create_map_runs' # create_map_runs =>
              (map_state = "LoadingAssets" /\ map_state' = "Ready") ]_vars
  /\ [](create_map_runs = IF map_state = "LoadingAssets" THEN 0 ELSE 1)

C6_Witness ==
  /\ map_state = "Generated"
  /\ main_state = "InGame"
  /\ create_map_runs = 1
  /\ player # None

\* ------------------------------------------------------- auto-tiling
\* The tile update_tile was applied to, and its TileType.
Subject == tiles[tile_storage[tile_pos]]

\* The neighbor of the subject in direction d has a different TileType.
Differs(d) == tiles[tile_storage[NeighborPos(tile_pos, d)]].tile_type # Subject.tile_type

Interior(pos) == NeighborDirs(pos, FALSE) = OrthogonalDirs

\* C11: for a Directional tile whose four orthogonal neighbors are in bounds
\* the index written is base + offset(mask), the mask being the sum of
\* North=1, East=2, South=4, West=8 over exactly the neighbors of a different
\* TileType: base + 1 (mask 15) when all four differ, base + 0 (mask 0) when
\* all four are identical.
C11_InteriorMask ==
  (new_index # -1 /\ Subject.tile_texture.kind = "Directional" /\ Interior(tile_pos)) =>
    LET mask == (IF Differs("North") THEN 1 ELSE 0) + (IF Differs("East") THEN 2 ELSE 0)
                + (IF Differs("South") THEN 4 ELSE 0) + (IF Differs("West") THEN 8 ELSE 0)
    IN /\ tile_mask(tiles, tile_storage, tile_pos) = mask
       /\ new_index = Subject.tile_texture.ind + map_bitmask_to_offset(mask)
       /\ (\A d \in OrthogonalDirs : Differs(d)) =>
            mask = 15 /\ new_index = Subject.tile_texture.ind + 1
       /\ (\A d \in OrthogonalDirs : ~Differs(d)) =>
            mask = 0 /\ new_index = Subject.tile_texture.ind

\* An interior Directional tile, all four neighbors different, index base + 1.
C11_Witness ==
  /\ new_index # -1
  /\ Subject.tile_texture.kind = "Directional"
  /\ Interior(tile_pos)
  /\ \A d \in OrthogonalDirs : Differs(d)
  /\ new_index = Subject.tile_texture.ind + 1

\* -------------------------------------------------------- visibility
\* Position q is an orthogonal or diagonal neighbor of position p.
Surrounds(p, q) == \E d \in NeighborDirs(p, TRUE) : NeighborPos(p, d) = q

\* Between two ticks: the frame's schedules are over.
TickOver == phase = "First" /\ tilemap # None

\* C12: between ticks every in-bounds orthogonal and diagonal neighbor of a
\* visible Walkable tile is visible; a tile's visibility only changes from
\* invisible to visible, never back, and only for a tile the store holds next
\* to a tile that is visible, Walkable and just changed: an invisible tile or
\* a visible tile that is not Walkable changes no neighbor.
C12_RevealOneWay ==
  /\ [](TickOver =>
          \A e \in DOMAIN tiles :
            (tiles[e].visible /\ tiles[e].tile_terrain = Walkable) =>
              \A d \in NeighborDirs(tiles[e].position, TRUE) :
                tiles[tile_storage[NeighborPos(tiles[e].position, d)]].visible)
  /\ [][ \A e \in DOMAIN tiles \cap DOMAIN tiles' :
           /\ tiles[e].visible => tiles'[e].visible
           /\ (~tiles[e].visible /\ tiles'[e].visible) =>
                /\ tile_storage[tiles[e].position] = e
                /\ \E c \in changed \cap DOMAIN tiles :
                     /\ tiles[c].visible
                     /\ tiles[c].tile_terrain = Walkable
                     /\ Surrounds(tiles[c].position, tiles[e].position) ]_vars

\* A dig at the edge of the revealed area revealed a tile of the outermost
\* column, while a corner of the map is still hidden next to visible ice.
C12_Witness ==
  /\ TickOver
  /\ \E p \in Positions :
       /\ p[1] = 0
       /\ tiles[tile_storage[p]].visible
       /\ tiles[tile_storage[<<1, p[2]>>]].tile_terrain = Walkable
  /\ ~tiles[tile_storage[<<0, 0>>]].visible
  /\ tiles[tile_storage[<<1, 1>>]].visible
  /\ tiles[tile_storage[<<1, 1>>]].tile_terrain # Walkable

\* ---------------------------------------------------- move requests
\* The step is move_player's run of this tick.
MoveRequest == "move_player" \notin ran /\ "move_player" \in ran' /\ ~panicked'

\* The tile the actor would enter with the key, as an <<x, y>> pair of integers
TargetOf(key) == << player[1].grid_pos[1] + move_target(key)[1],
                    player[1].grid_pos[2] + move_target(key)[2] >>

\* The request made with the key is ineligible: no directional intent, an
\* actor that already has a MoveTo, a target outside the map, or an
\* Impassable target tile.
Ineligible(key) ==
  \/ key = "None"
  \/ player[1].move_to # None
  \/ ~InBounds(TargetOf(key)[1], TargetOf(key)[2])
  \/ /\ tile_storage[TargetOf(key)] \in DOMAIN tiles
     /\ tiles[tile_storage[TargetOf(key)]].tile_terrain = Impassable

HasCmd(cs, op) == \E i \in 1 .. Len(cs) : cs[i].op = op

\* C13: an ineligible request queues nothing and changes neither the actor's
\* GridPosition and MoveTo nor any tile's TileDigging nor the store; and at the
\* end of a tick in which no MoveTo (no TileDigging) was queued, the actor
\* (every tile's TileDigging) is as it was.
C13_IneligibleNoChange ==
  /\ [][ (MoveRequest /\ player # None /\ Ineligible(pressed')) =>
           /\ cmds' = cmds
           /\ player' = player
           /\ tiles' = tiles
           /\ tile_storage' = tile_storage ]_vars
  /\ [][ UpdateEnds =>
           /\ ~HasCmd(cmds, "insert_moveto") => player' = player
           /\ ~HasCmd(cmds, "insert_digging") =>
                \A e \in DOMAIN tiles \cap DOMAIN tiles' :
                  tiles'[e].digging = tiles[e].digging
           /\ tile_storage' = tile_storage ]_vars

\* A request against an Impassable tile was made and queued nothing.
C13_Witness ==
  /\ phase = "Update" /\ "move_player" \in ran /\ ~panicked
  /\ player # None /\ player[1].move_to = None
  /\ pressed # "None"
  /\ InBounds(TargetOf(pressed)[1], TargetOf(pressed)[2])
  /\ tiles[tile_storage[TargetOf(pressed)]].tile_terrain = Impassable
  /\ cmds = << >>

\* ------------------------------------------------- texture indices
\* The tile the store holds at position p
StoredTile(p) == tiles[tile_storage[p]]

\* The index tile t shows is the one its texture rule gives for the mask m.
IndexFresh(t, m) ==
  IF t.tile_texture.kind = "Directional"
  THEN t.texture_index = t.tile_texture.ind + map_bitmask_to_offset(m)
  ELSE t.texture_index = t.tile_texture.ind

\* C14: between ticks, once the map is generated, every tile of the store
\* shows base + offset(mask) for the mask recomputed from the current store if
\* it is Directional and its fixed index if it is Single, and so does every
\* visible tile.
C14_NoStaleIndex ==
  TickOver =>
    /\ \A p \in Positions :
         IndexFresh(StoredTile(p), tile_mask(tiles, tile_storage, p))
    /\ \A e \in DOMAIN tiles :
         tiles[e].visible =>
           IndexFresh(tiles[e], tile_mask(tiles, tile_storage, tiles[e].position))

\* A dug tile next to a Directional ice tile whose index now shows the new
\* boundary.
C14_Witness ==
  /\ TickOver
  /\ \E p \in Positions \ GroundPositions :
       /\ StoredTile(p).tile_type = "ground"
       /\ \E d \in NeighborDirs(p, FALSE) :
            LET q == NeighborPos(p, d)
            IN /\ StoredTile(q).tile_type = "ice"
               /\ StoredTile(q).tile_texture.kind = "Directional"
               /\ tile_mask(tiles, tile_storage, q) \in 1 .. 14
               /\ StoredTile(q).texture_index =
                    StoredTile(q).tile_texture.ind
                    + map_bitmask_to_offset(tile_mask(tiles, tile_storage, q))
               /\ StoredTile(q).texture_index # StoredTile(q).tile_texture.ind

\* The subject has no neighbor in direction d (it points outside the map).
Absent(d) == d \notin NeighborDirs(tile_pos, FALSE)

\* C15 as stated: the index written for a Directional tile is base +
\* offset(mask) where a direction's bit is set when the neighbor in that
\* direction is absent or of a different TileType, so that every direction
\* pointing outside the map contributes its bit.
C15_AbsentNeighborSetsBit ==
  (new_index # -1 /\ Subject.tile_texture.kind = "Directional") =>
    new_index = Subject.tile_texture.ind
                + map_bitmask_to_offset(
                    SumBits({d \in OrthogonalDirs : Absent(d) \/ Differs(d)}))

\* ------------------------------------------------- MoveTo invariants
Abs(n) == IF n < 0 THEN -n ELSE n

\* Positions p and q are orthogonal neighbors.
Adjacent(p, q) == Abs(p[1] - q[1]) + Abs(p[2] - q[2]) = 1

\* C16: GridPosition is always a position of the map; while the actor has a
\* MoveTo its target is a position of the map orthogonally adjacent to
\* GridPosition; a MoveTo appears only on an actor that had none, with the
\* target tile not Impassable at that moment, and an existing MoveTo is never
\* replaced by another (only its elapsed time grows).
C16_MoveToWellFormed ==
  /\ [](player # None =>
          /\ player[1].grid_pos \in Positions
          /\ player[1].move_to # None =>
               /\ player[1].move_to[1].target \in Positions
               /\ Adjacent(player[1].grid_pos, player[1].move_to[1].target))
  /\ [][ (player # None /\ player' # None /\ player'[1].move_to # None) =>
           IF player[1].move_to = None
           THEN LET t == player'[1].move_to[1].target
                IN /\ tile_storage[t] \in DOMAIN tiles
                   /\ tiles[tile_storage[t]].tile_terrain # Impassable
                   /\ player'[1].move_to[1].elapsed_time = 0
           ELSE /\ player'[1].move_to[1].target = player[1].move_to[1].target
                /\ player'[1].move_to[1].movement_time = player[1].move_to[1].movement_time
                /\ player'[1].move_to[1].elapsed_time >= player[1].move_to[1].elapsed_time ]_vars

\* The actor, having left its spawn cell, is on its way to a neighboring cell.
C16_Witness ==
  /\ player # None
  /\ player[1].grid_pos # spawn_player.grid_pos
  /\ player[1].move_to # None
  /\ player[1].move_to[1].elapsed_time > 0
  /\ Adjacent(player[1].grid_pos, player[1].move_to[1].target)

\* --------------------------------------------- TileDigging carriers
\* Entity e was spawned by a dig replacement (after everything create_map spawned).
Replacement(e) == tilemap # None /\ e > tilemap[1] + MapSize * MapSize + 9

\* C17: every tile entity that carries TileDigging has Diggable terrain (it
\* is an "ice" tile); no Walkable or Impassable tile and no tile spawned by a
\* dig replacement carries TileDigging.
C17_OnlyDiggableDigs ==
  \A e \in DOMAIN tiles :
    /\ tiles[e].digging # None =>
         /\ tiles[e].tile_terrain.kind = "Diggable"
         /\ tiles[e].tile_type = "ice"
    /\ (tiles[e].tile_terrain.kind \in {"Walkable", "Impassable"} \/ Replacement(e)) =>
         tiles[e].digging = None

\* A second dig is under way next to a tile a first dig replaced.
C17_Witness ==
  /\ \E e \in DOMAIN tiles :
       /\ tiles[e].digging # None
       /\ tiles[e].digging[1].elapsed > 0
       /\ tiles[e].tile_terrain.kind = "Diggable"
  /\ \E r \in DOMAIN tiles :
       /\ Replacement(r)
       /\ tiles[r].tile_terrain = Walkable
       /\ tiles[r].digging = None

\* ------------------------------------------- store replacement races
\* The store entry at p names an entity whose components are not (yet, or any
\* more) in the world.
HalfWritten(p) == tile_storage[p] \notin DOMAIN tiles

\* The positions move_player may look up in the store when it runs now.
Lookups ==
  IF player = None \/ player[1].move_to # None THEN {}
  ELSE { TargetOf(key) : key \in Keys \ {"None"} } \cap Positions

\* C18: in whichever order update_tile_digging and move_player run in a
\* tick, move_player never looks up a store entry whose entity is not live,
\* TileDigging is never queued for an entity that is not live or is queued
\* for removal, a store entry names a not yet spawned entity only inside the
\* Update pass that queued its spawn, and the PostUpdate systems find every
\* store entry live.
C18_NoHalfWrittenRead ==
  /\ (phase = "Update" /\ "move_player" \notin ran /\ main_state = "InGame"
        /\ tilemap # None) =>
       \A p \in Lookups : ~HalfWritten(p)
  /\ \A i \in 1 .. Len(cmds) :
       cmds[i].op = "insert_digging" =>
         /\ cmds[i].entity \in DOMAIN tiles
         /\ \A j \in 1 .. Len(cmds) :
              cmds[j].op = "despawn" => cmds[j].entity # cmds[i].entity
  /\ \A p \in DOMAIN tile_storage :
       HalfWritten(p) =>
         /\ phase = "Update"
         /\ \E i \in 1 .. Len(cmds) :
              cmds[i].op = "spawn" /\ cmds[i].entity = tile_storage[p]
                /\ cmds[i].bundle.position = p

\* update_tile_digging ran first and replaced a store entry whose new entity
\* is not spawned yet, then move_player ran with a key pressed and an idle
\* actor, and looked up a neighboring entry.
C18_Witness ==
  /\ phase = "Update" /\ ran = {"update_tile_digging", "move_player"} /\ ~panicked
  /\ \E p \in Positions : HalfWritten(p)
  /\ pressed # "None"
  /\ HasCmd(cmds, "insert_moveto")

\* ------------------------------------------------------- termination
\* A live tile at position p carries TileDigging.
DiggingAt(p) == \E e \in DOMAIN tiles : tiles[e].position = p /\ tiles[e].digging # None

\* The tile the store holds at p is a live Walkable tile that is not being dug.
WalkableAt(p) ==
  /\ tilemap # None
  /\ tile_storage[p] \in DOMAIN tiles
  /\ tiles[tile_storage[p]].tile_terrain = Walkable
  /\ tiles[tile_storage[p]].digging = None

MovingTo(p) == player # None /\ player[1].move_to # None /\ player[1].move_to[1].target = p

IdleAt(p) == player # None /\ player[1].move_to = None /\ player[1].grid_pos = p

\* C19: as frames keep running (every frame after the first has a positive
\* delta), no position stays under a dig for ever and the actor does not keep
\* a MoveTo for ever; the step that ends a dig at p leaves a Walkable tile in
\* the store at p, and the step that ends a MoveTo to p leaves the actor idle
\* with GridPosition p.
C19_SelfTerminating ==
  /\ \A p \in Positions : []<>(~DiggingAt(p))
  /\ []<>(player = None \/ player[1].move_to = None)
  /\ [][ \A p \in Positions :
           /\ (DiggingAt(p) /\ ~DiggingAt(p)') => WalkableAt(p)'
           /\ (MovingTo(p) /\ ~MovingTo(p)') => IdleAt(p)' ]_vars

\* A dig of the hardest tile and the move into it are both under way.
C19_Witness ==
  \E p \in Positions :
    /\ DiggingAt(p)
    /\ MovingTo(p)
    /\ tiles[tile_storage[p]].tile_terrain = Diggable(MaxHardness)
    /\ tiles[tile_storage[p]].digging # None
    /\ tiles[tile_storage[p]].digging[1].elapsed > 0
    /\ player[1].move_to[1].elapsed_time > 0

\* ------------------------------------------------- in-game gate
\* The tilemap exists and its store holds a live tile at every position.
MapExists ==
  /\ tilemap # None
  /\ DOMAIN tile_storage = Positions
  /\ phase # "Update" => \A p \in Positions : tile_storage[p] \in DOMAIN tiles

\* A schedule with in-game systems is running (animate_moveto in FixedUpdate,
\* move_player and update_tile_digging in Update, the two PostUpdate systems).
InGameUpdatesRun == main_state = "InGame" /\ phase \in {"FixedUpdate", "Update", "PostUpdate"}

\* C20 as stated: whenever MainStates is InGame and its updates run, map
\* generation has completed: the tilemap with its fully populated store exists
\* and MapStates is Generated.
C20_InGameAfterGeneration ==
  InGameUpdatesRun => (MapExists /\ map_state = "Generated")

\* ------------------------------------------------- idle actor's ground
\* The actor exists and has no MoveTo.
Idle == player # None /\ player[1].move_to = None

\* The tile the store holds at the actor's GridPosition is live and Walkable.
StandsOnWalkable ==
  /\ tile_storage[player[1].grid_pos] \in DOMAIN tiles
  /\ tiles[tile_storage[player[1].grid_pos]].tile_terrain = Walkable

\* C21 as stated: between frames (every schedule of the tick has run and its
\* commands are applied), once the map is generated, an actor without MoveTo
\* stands on a tile whose terrain is Walkable.
C21_IdleOnWalkable ==
  (TickOver /\ Idle) => StandsOnWalkable
=============================================================================
